---- MODULE Spec2Model ----
(***************************************************************************)
(* A model of app/similar.py: the plan phase (make_plan) that resolves     *)
(* exact and perceptual duplicates between a master and a source tree and  *)
(* writes one plan row per decision, and the apply phase (do_apply) that   *)
(* replays the rows with shutil.move.                                      *)
(***************************************************************************)
EXTENDS Integers, Sequences, FiniteSets, TLC

VARIABLES
    fs,            \* the filesystem: existing file path -> content
    dirs,          \* existing directories: master sub-directories and "Q" (QUAR)
    phase,         \* "init" | "rows" | "planned" | "applying"
    now,           \* int(time.time()), never decreasing
    MASTER_FILES,  \* list(scan_files(MASTER))
    SOURCE_FILES,  \* list(scan_files(SOURCE))
    pairs_exact,   \* (src, master, action, reason) of the exact-duplicate phase
    pairs_sim,     \* (src, master, action, reason) of the perceptual-hash phase
    rows,          \* the rows of PLAN_CSV
    idx,           \* next pair (make_plan) or next row (do_apply)
    pc,            \* position inside a REPLACE row of do_apply: "row" | "src"
    runs,          \* DRY_RUN of every do_apply started so far, in order
    tally,         \* moved / replaced / kept of the current do_apply
    log,           \* history: every shutil.move performed since the plan
    fsStart,       \* history: fs when the current do_apply started
    dirsStart,     \* history: dirs when the current do_apply started
    drifts         \* files that disappeared between plan and apply

vars == <<fs, dirs, phase, now, MASTER_FILES, SOURCE_FILES, pairs_exact, pairs_sim,
          rows, idx, pc, runs, tally, log, fsStart, dirsStart, drifts>>

(***************************************************************************)
(* Bounds of the model.                                                    *)
(***************************************************************************)
MaxTime == 2     \* the clock takes the values 1..MaxTime
MaxDrift == 1    \* files that may disappear between plan and apply
MaxRuns == 2     \* runs of do_apply over one plan
MaxMaster == 2   \* media files in the master tree
MaxSource == 2   \* media files in the source tree

(***************************************************************************)
(* Configuration (module level of similar.py).                             *)
(***************************************************************************)
PHASH_THRESHOLD == 1
QUALITY_ORDER == <<"raw", "heic", "jpeg", "png", "other">>
INITIAL_BEST_D == 999

(***************************************************************************)
(* Paths.  A path is root / dir / stem[_ts].ext; ts = 0 is "no suffix".    *)
(* root "M" is MASTER, "S" is SOURCE, "Q" is QUAR.                         *)
(***************************************************************************)
P(root, dir, stem, ts, ext) ==
    [root |-> root, dir |-> dir, stem |-> stem, ts |-> ts, ext |-> ext]

NoPath == P("", "", "", 0, "")

MasterPaths == {P("M", "d1", "x", 0, "jpg"), P("M", "d2", "x", 0, "jpg"),
                P("M", "d2", "x", 0, "png")}
SourcePaths == {P("S", "a", "x", 0, "jpg"), P("S", "b", "x", 0, "jpg"),
                P("S", "b", "x", 0, "png")}
QuarPaths == {P("Q", "", "x", 0, "jpg")}

\* the order in which rglob and jdupes enumerate paths
PathOrder == <<P("M", "d1", "x", 0, "jpg"), P("M", "d2", "x", 0, "jpg"),
               P("M", "d2", "x", 0, "png"), P("S", "a", "x", 0, "jpg"),
               P("S", "b", "x", 0, "jpg"), P("S", "b", "x", 0, "png")>>

(***************************************************************************)
(* File contents.  body identifies the bytes; head is the first 1024       *)
(* bytes, sz the size, px the pixel count PIL reports (0: unreadable), ex  *)
(* whether exiftool prints a capture date, ym the year/month bucket, ph    *)
(* the perceptual hash as the set of its 1-bits (NoHash: phash failed).    *)
(***************************************************************************)
NoHash == {0}

Content(body, head, sz, px, ex, ym, ph) ==
    [body |-> body, head |-> head, sz |-> sz, px |-> px, ex |-> ex, ym |-> ym, ph |-> ph]

Contents == {Content(1, 1, 1, 1, FALSE, "d1", {}),
             Content(2, 1, 1, 1, TRUE,  "d1", {1}),
             Content(3, 2, 2, 1, FALSE, "d1", {1, 2}),
             Content(4, 3, 1, 0, FALSE, "d2", NoHash)}

ContentOrder == <<Content(1, 1, 1, 1, FALSE, "d1", {}),
                  Content(2, 1, 1, 1, TRUE,  "d1", {1}),
                  Content(3, 2, 2, 1, FALSE, "d1", {1, 2}),
                  Content(4, 3, 1, 0, FALSE, "d2", NoHash)>>

Exists(p) == p \in DOMAIN fs

FilesIn(root) == {p \in DOMAIN fs : p.root = root}

\* the members of a set of paths in enumeration order
SeqOf(S) == SelectSeq(PathOrder, LAMBDA p : p \in S)

(***************************************************************************)
(* file_type_rank, file_score, better                                      *)
(***************************************************************************)
TypeOf(ext) ==
    IF ext \in {"dng", "cr2", "cr3", "nef", "arw"} THEN "raw"
    ELSE IF ext \in {"heic", "heif"} THEN "heic"
    ELSE IF ext \in {"jpg", "jpeg"} THEN "jpeg"
    ELSE IF ext \in {"png"} THEN "png"
    ELSE "other"

\* list.index, 0-based
IndexOf(seq, x) == (CHOOSE i \in 1..Len(seq) : seq[i] = x /\ \A j \in 1..(i-1) : seq[j] # x) - 1

file_type_rank(p) ==
    LET t == TypeOf(p.ext)
    IN IF \E i \in 1..Len(QUALITY_ORDER) : QUALITY_ORDER[i] = t
       THEN IndexOf(QUALITY_ORDER, t)
       ELSE Len(QUALITY_ORDER)

file_score(p) ==
    LET c == fs[p]
    IN <<file_type_rank(p), 0 - c.px, IF ~c.ex THEN 0 ELSE 0 - 1, 0 - c.sz>>

\* Python's a < b on tuples: the first differing position decides
RECURSIVE TupleLessFrom(_, _, _)
TupleLessFrom(a, b, i) ==
    IF i > Len(a) \/ i > Len(b) THEN Len(a) < Len(b)
    ELSE IF a[i] # b[i] THEN a[i] < b[i]
    ELSE TupleLessFrom(a, b, i + 1)

TupleLess(a, b) == TupleLessFrom(a, b, 1)

\* better with <= for <: a tie keeps the first argument
better_tie_first(a, b) == IF TupleLess(file_score(b), file_score(a)) THEN b ELSE a

better(a, b) == IF TupleLess(file_score(a), file_score(b)) THEN a ELSE b

(***************************************************************************)
(* phash, hamming                                                          *)
(***************************************************************************)
phash(p) == fs[p].ph

hamming(a, b) == Cardinality((a \ b) \cup (b \ a))

\* collect_by_phash: the dict, as the list of its (path, hash) items
collect_by_phash(paths) == [i \in 1..Len(paths) |-> [p |-> paths[i], h |-> phash(paths[i])]]

(***************************************************************************)
(* jdupes_groups: the groups of byte-identical files under MASTER and      *)
(* SOURCE, two members or more.                                            *)
(***************************************************************************)
GroupOf(c) == SeqOf({p \in FilesIn("M") \cup FilesIn("S") : fs[p] = c})

RECURSIVE GroupsFrom(_)
GroupsFrom(i) ==
    IF i > Len(ContentOrder) THEN <<>>
    ELSE LET g == GroupOf(ContentOrder[i])
         IN (IF Len(g) >= 2 THEN <<g>> ELSE <<>>) \o GroupsFrom(i + 1)

jdupes_groups == GroupsFrom(1)

(***************************************************************************)
(* make_plan, exact duplicates (lines 182-207)                             *)
(***************************************************************************)
Pair(s, m, act, code, d) == [s |-> s, m |-> m, act |-> act, why |-> [code |-> code, d |-> d]]

NoDist == 0 - 1

\* best = candidates[0]; for c in candidates[1:]: best = better(best, c)
RECURSIVE BestFrom(_, _, _)
BestFrom(cands, i, best) ==
    IF i > Len(cands) THEN best ELSE BestFrom(cands, i + 1, better(best, cands[i]))

BestOf(cands) == BestFrom(cands, 2, cands[1])

\* worst_m = m if file_score(m) > file_score(worst_m) else worst_m
RECURSIVE WorstFrom(_, _, _)
WorstFrom(ms, i, worst) ==
    IF i > Len(ms) THEN worst
    ELSE WorstFrom(ms, i + 1,
                   IF TupleLess(file_score(worst), file_score(ms[i])) THEN ms[i] ELSE worst)

WorstOf(ms) == WorstFrom(ms, 2, ms[1])

ExactDecision(has_master, s) ==
    LET best == BestOf(has_master \o <<s>>)
    IN IF best = s
       THEN Pair(s, WorstOf(has_master), "REPLACE_MASTER_WITH_SOURCE", "exact_dup_better_source", NoDist)
       ELSE Pair(s, best, "KEEP_MASTER", "exact_dup_master_better", NoDist)

GroupDecisions(g) ==
    LET has_master == SelectSeq(g, LAMBDA p : p.root = "M")
        has_source == SelectSeq(g, LAMBDA p : p.root = "S")
    IN IF has_master = <<>> \/ has_source = <<>> THEN <<>>
       ELSE [i \in 1..Len(has_source) |-> ExactDecision(has_master, has_source[i])]

RECURSIVE ExactFrom(_, _)
ExactFrom(groups, i) ==
    IF i > Len(groups) THEN <<>> ELSE GroupDecisions(groups[i]) \o ExactFrom(groups, i + 1)

ExactPairs(groups) == ExactFrom(groups, 1)

(***************************************************************************)
(* make_plan, perceptual hashes (lines 212-246)                            *)
(***************************************************************************)
\* for m, mh in master_hash.items(): ... if d < best_d: best_d, best_m = d, m
RECURSIVE NearestFrom(_, _, _, _)
NearestFrom(master_hash, sh, i, acc) ==
    IF i > Len(master_hash) THEN acc
    ELSE LET mh == master_hash[i].h
             d == hamming(sh, mh)
         IN IF mh = NoHash THEN NearestFrom(master_hash, sh, i + 1, acc)
            ELSE IF d < acc.best_d
                 THEN NearestFrom(master_hash, sh, i + 1, [best_d |-> d, best_m |-> master_hash[i].p])
                 ELSE NearestFrom(master_hash, sh, i + 1, acc)

Nearest(master_hash, sh) ==
    NearestFrom(master_hash, sh, 1, [best_d |-> INITIAL_BEST_D, best_m |-> NoPath])

\* SimDecision with < for <=: a distance equal to the threshold is no match
SimDecision_strict(master_hash, s, sh) ==
    IF sh = NoHash THEN Pair(s, NoPath, "MOVE_SOURCE", "no_phash", NoDist)
    ELSE LET n == Nearest(master_hash, sh)
         IN IF n.best_m # NoPath /\ n.best_d < PHASH_THRESHOLD
            THEN IF better(s, n.best_m) = s
                 THEN Pair(s, n.best_m, "REPLACE_MASTER_WITH_SOURCE", "phash_dup_better_source", n.best_d)
                 ELSE Pair(s, n.best_m, "KEEP_MASTER", "phash_dup_master_better", n.best_d)
            ELSE Pair(s, NoPath, "MOVE_SOURCE", "unique_vs_master", NoDist)

SimDecision(master_hash, s, sh) ==
    IF sh = NoHash THEN Pair(s, NoPath, "MOVE_SOURCE", "no_phash", NoDist)
    ELSE LET n == Nearest(master_hash, sh)
         IN IF n.best_m # NoPath /\ n.best_d <= PHASH_THRESHOLD
            THEN IF better(s, n.best_m) = s
                 THEN Pair(s, n.best_m, "REPLACE_MASTER_WITH_SOURCE", "phash_dup_better_source", n.best_d)
                 ELSE Pair(s, n.best_m, "KEEP_MASTER", "phash_dup_master_better", n.best_d)
            ELSE Pair(s, NoPath, "MOVE_SOURCE", "unique_vs_master", NoDist)

\* remaining without the filter: the exact duplicates are not taken out
Remaining_all(source_files, exact) == source_files

Remaining(source_files, exact) ==
    SelectSeq(source_files, LAMBDA p : ~(\E i \in 1..Len(exact) : exact[i].s = p))

SimPairs(master_files, remaining) ==
    LET master_hash == collect_by_phash(master_files)
        source_hash == collect_by_phash(remaining)
    IN [i \in 1..Len(source_hash) |-> SimDecision(master_hash, source_hash[i].p, source_hash[i].h)]

(***************************************************************************)
(* make_plan, rows (lines 252-287)                                         *)
(***************************************************************************)
\* size equality and the first 1024 bytes
filecmp(a, b) == fs[a].sz = fs[b].sz /\ fs[a].head = fs[b].head

exif_yyyy_mm(p) == fs[p].ym

\* t is what int(time.time()) returns if it is read
target_path_for(p, t) ==
    LET rel == exif_yyyy_mm(p)
        dest == P("M", rel, p.stem, p.ts, p.ext)
    IN [tdir |-> rel,
        tpath |-> IF Exists(dest) /\ ~filecmp(p, dest) THEN P("M", rel, p.stem, t, p.ext) ELSE dest]

ReadsClockForTarget(p) ==
    LET dest == P("M", exif_yyyy_mm(p), p.stem, p.ts, p.ext)
    IN Exists(dest) /\ ~filecmp(p, dest)

Replaces(pr) == pr.act = "REPLACE_MASTER_WITH_SOURCE" /\ pr.m # NoPath

\* qpath = QUAR / m.name, or QUAR / f"{m.stem}_{ts}{m.suffix}" if that exists
quarantine_path_for(m, t) ==
    LET q == P("Q", "", m.stem, m.ts, m.ext)
    IN IF Exists(q) THEN P("Q", "", m.stem, t, m.ext) ELSE q

ReadsClockForQuarantine(pr) == Replaces(pr) /\ Exists(P("Q", "", pr.m.stem, pr.m.ts, pr.m.ext))

PlanRow(pr, t1, t2) ==
    LET tp == target_path_for(pr.s, t1)
    IN [action |-> pr.act, src |-> pr.s, master |-> pr.m,
        target_dir |-> tp.tdir, target_path |-> tp.tpath,
        quarantine_path |-> IF Replaces(pr) THEN quarantine_path_for(pr.m, t2) ELSE NoPath,
        reason |-> pr.why]

(***************************************************************************)
(* The initial states: a master tree, a source tree and a quarantine       *)
(* directory that may hold a file of an earlier run.                       *)
(***************************************************************************)
OldQuarantined == Content(4, 3, 1, 0, FALSE, "d2", NoHash)

Init ==
    /\ \E ms \in SUBSET MasterPaths, ss \in SUBSET SourcePaths, qs \in SUBSET QuarPaths :
         /\ Cardinality(ms) <= MaxMaster
         /\ Cardinality(ss) <= MaxSource
         /\ \E f \in [ms \cup ss -> Contents] :
              fs = [p \in ms \cup ss \cup qs |-> IF p \in qs THEN OldQuarantined ELSE f[p]]
         /\ dirs = {p.dir : p \in ms} \cup (IF qs = {} THEN {} ELSE {"Q"})
    /\ phase = "init"
    /\ now = 1
    /\ MASTER_FILES = <<>>
    /\ SOURCE_FILES = <<>>
    /\ pairs_exact = <<>>
    /\ pairs_sim = <<>>
    /\ rows = <<>>
    /\ idx = 1
    /\ pc = "row"
    /\ runs = <<>>
    /\ tally = [moved |-> 0, replaced |-> 0, kept |-> 0]
    /\ log = <<>>
    /\ fsStart = fs
    /\ dirsStart = dirs
    /\ drifts = {}

(***************************************************************************)
(* make_plan, lines 172-246: scan, exact duplicates, perceptual hashes     *)
(***************************************************************************)
Resolve ==
    /\ phase = "init"
    /\ LET master_files == SeqOf(FilesIn("M"))
           source_files == SeqOf(FilesIn("S"))
           exact == ExactPairs(jdupes_groups)
           sim == SimPairs(master_files, Remaining(source_files, exact))
       IN /\ MASTER_FILES' = master_files
          /\ SOURCE_FILES' = source_files
          /\ pairs_exact' = exact
          /\ pairs_sim' = sim
          /\ phase' = IF exact \o sim = <<>> THEN "planned" ELSE "rows"
    /\ UNCHANGED <<fs, dirs, now, rows, idx, pc, runs, tally, log, fsStart, dirsStart, drifts>>

(***************************************************************************)
(* make_plan, lines 276-288: one row of the plan; the CSV is complete      *)
(* after the last one                                                      *)
(***************************************************************************)
WriteRow ==
    /\ phase = "rows"
    /\ idx <= Len(pairs_exact \o pairs_sim)
    /\ LET pr == (pairs_exact \o pairs_sim)[idx]
       IN \E t1 \in now..MaxTime : \E t2 \in t1..MaxTime :
            /\ ReadsClockForTarget(pr.s) \/ t1 = now
            /\ ReadsClockForQuarantine(pr) \/ t2 = t1
            /\ rows' = Append(rows, PlanRow(pr, t1, t2))
            /\ dirs' = IF Replaces(pr) THEN dirs \cup {"Q"} ELSE dirs
            /\ now' = t2
    /\ idx' = IF idx = Len(pairs_exact \o pairs_sim) THEN 1 ELSE idx + 1
    /\ phase' = IF idx = Len(pairs_exact \o pairs_sim) THEN "planned" ELSE "rows"
    /\ UNCHANGED <<fs, MASTER_FILES, SOURCE_FILES, pairs_exact, pairs_sim, pc, runs, tally,
                   log, fsStart, dirsStart, drifts>>

(***************************************************************************)
(* Between plan and apply a file of either tree may disappear.             *)
(***************************************************************************)
Drift ==
    /\ phase = "planned"
    /\ runs = <<>>
    /\ Cardinality(drifts) < MaxDrift
    /\ \E p \in FilesIn("M") \cup FilesIn("S") :
         /\ fs' = [q \in DOMAIN fs \ {p} |-> fs[q]]
         /\ drifts' = drifts \cup {p}
    /\ UNCHANGED <<dirs, phase, now, MASTER_FILES, SOURCE_FILES, pairs_exact, pairs_sim,
                   rows, idx, pc, runs, tally, log, fsStart, dirsStart>>

(***************************************************************************)
(* do_apply (lines 308-344)                                                *)
(***************************************************************************)
DRY_RUN == runs[Len(runs)]

\* shutil.move of a file: the destination is replaced if it exists
Move(f, a, b) == [q \in (DOMAIN f \ {a}) \cup {b} |-> IF q = b THEN f[a] ELSE f[q]]

Moved(a, b) == [from |-> a, to |-> b, content |-> fs[a], run |-> Len(runs), row |-> idx]

\* the loop moves to the next row; after the last one do_apply returns
NextRow ==
    /\ idx' = IF idx = Len(rows) THEN 1 ELSE idx + 1
    /\ phase' = IF idx = Len(rows) THEN "planned" ELSE "applying"
    /\ pc' = "row"

StartApply ==
    /\ phase = "planned"
    /\ Len(runs) < MaxRuns
    /\ \E dry \in BOOLEAN : runs' = Append(runs, dry)
    /\ phase' = IF rows = <<>> THEN "planned" ELSE "applying"
    /\ idx' = 1
    /\ pc' = "row"
    /\ tally' = [moved |-> 0, replaced |-> 0, kept |-> 0]
    /\ fsStart' = fs
    /\ dirsStart' = dirs
    /\ UNCHANGED <<fs, dirs, now, MASTER_FILES, SOURCE_FILES, pairs_exact, pairs_sim, rows,
                   log, drifts>>

ApplyKeep ==
    /\ phase = "applying"
    /\ pc = "row"
    /\ rows[idx].action = "KEEP_MASTER"
    /\ tally' = [tally EXCEPT !.kept = @ + 1]
    /\ NextRow
    /\ UNCHANGED <<fs, dirs, now, MASTER_FILES, SOURCE_FILES, pairs_exact, pairs_sim, rows,
                   runs, log, fsStart, dirsStart, drifts>>

ApplyMove ==
    /\ phase = "applying"
    /\ pc = "row"
    /\ rows[idx].action = "MOVE_SOURCE"
    /\ LET r == rows[idx]
       IN /\ dirs' = dirs \cup {r.target_dir}
          /\ IF ~DRY_RUN /\ Exists(r.src)
             THEN /\ fs' = Move(fs, r.src, r.target_path)
                  /\ log' = Append(log, Moved(r.src, r.target_path))
             ELSE UNCHANGED <<fs, log>>
    /\ tally' = [tally EXCEPT !.moved = @ + 1]
    /\ NextRow
    /\ UNCHANGED <<now, MASTER_FILES, SOURCE_FILES, pairs_exact, pairs_sim, rows, runs,
                   fsStart, dirsStart, drifts>>

\* a REPLACE row up to and including the move of the master to quarantine;
\* in a dry run this is all of the row
ApplyReplaceQuarantine ==
    /\ phase = "applying"
    /\ pc = "row"
    /\ rows[idx].action = "REPLACE_MASTER_WITH_SOURCE"
    /\ rows[idx].master # NoPath
    /\ LET r == rows[idx]
       IN IF DRY_RUN
          THEN /\ dirs' = dirs \cup {r.target_dir}
               /\ tally' = [tally EXCEPT !.replaced = @ + 1]
               /\ NextRow
               /\ UNCHANGED <<fs, log>>
          ELSE /\ IF Exists(r.master) /\ r.quarantine_path # NoPath
                  THEN /\ dirs' = dirs \cup {r.target_dir, "Q"}
                       /\ fs' = Move(fs, r.master, r.quarantine_path)
                       /\ log' = Append(log, Moved(r.master, r.quarantine_path))
                  ELSE /\ dirs' = dirs \cup {r.target_dir}
                       /\ UNCHANGED <<fs, log>>
               /\ pc' = "src"
               /\ UNCHANGED <<tally, idx, phase>>
    /\ UNCHANGED <<now, MASTER_FILES, SOURCE_FILES, pairs_exact, pairs_sim, rows, runs,
                   fsStart, dirsStart, drifts>>

\* the rest of a live REPLACE row: the move of the source to target_path
ApplyReplaceSource ==
    /\ phase = "applying"
    /\ pc = "src"
    /\ LET r == rows[idx]
       IN IF Exists(r.src)
          THEN /\ fs' = Move(fs, r.src, r.target_path)
               /\ log' = Append(log, Moved(r.src, r.target_path))
          ELSE UNCHANGED <<fs, log>>
    /\ tally' = [tally EXCEPT !.replaced = @ + 1]
    /\ NextRow
    /\ UNCHANGED <<dirs, now, MASTER_FILES, SOURCE_FILES, pairs_exact, pairs_sim, rows, runs,
                   fsStart, dirsStart, drifts>>

Next ==
    \/ Resolve
    \/ WriteRow
    \/ Drift
    \/ StartApply
    \/ ApplyKeep
    \/ ApplyMove
    \/ ApplyReplaceQuarantine
    \/ ApplyReplaceSource

Spec == Init /\ [][Next]_vars

\* make_plan alone
PlanNext ==
    \/ Resolve
    \/ WriteRow

PlanSpec == Init /\ [][PlanNext]_vars

(***************************************************************************)
(* Vocabulary of the properties                                            *)
(***************************************************************************)
Range(seq) == {seq[i] : i \in 1..Len(seq)}

\* a is strictly lower (better) than b: lower at the first position where they differ
LexLower(a, b) == \E i \in 1..4 : a[i] < b[i] /\ \A j \in 1..(i - 1) : a[j] = b[j]

\* the filesystem is still the one make_plan saw
PlanTime == phase # "init" /\ runs = <<>> /\ drifts = {}

PlanWritten == phase \in {"planned", "applying"}

\* make_plan has just compared the files and written no row yet
Resolved == phase = "rows" /\ rows = <<>>

\* the run of do_apply in progress, or the last one, is the first live one
FirstLiveRun == runs # <<>> /\ ~DRY_RUN /\ \A k \in 1..(Len(runs) - 1) : runs[k]

RunComplete == runs # <<>> /\ phase = "planned"

CountRows(act) == Cardinality({i \in 1..Len(rows) : rows[i].action = act})

(***************************************************************************)
(* C1: in every duplicate group with a master and a source member, each    *)
(* source member s gets exactly one decision, which is                     *)
(* REPLACE_MASTER_WITH_SOURCE if and only if file_score(s) is strictly     *)
(* lower than the score of every master member; when s ties the best       *)
(* master member the decision is KEEP_MASTER, exact_dup_master_better.     *)
(***************************************************************************)
C1_ExactResolution ==
    PlanTime =>
        \A s \in FilesIn("S") :
            LET ms == {m \in FilesIn("M") : fs[m] = fs[s]}
                ds == {i \in 1..Len(pairs_exact) : pairs_exact[i].s = s}
            IN ms # {} =>
                 /\ Cardinality(ds) = 1
                 /\ \A i \in ds :
                      /\ pairs_exact[i].act = "REPLACE_MASTER_WITH_SOURCE"
                           <=> \A m \in ms : LexLower(file_score(s), file_score(m))
                      /\ (/\ \E m \in ms : file_score(m) = file_score(s)
                          /\ \A m \in ms : ~LexLower(file_score(m), file_score(s)))
                           => /\ pairs_exact[i].act = "KEEP_MASTER"
                              /\ pairs_exact[i].why.code = "exact_dup_master_better"

(***************************************************************************)
(* C2: no two rows of a plan have the same non-empty target_path: two      *)
(* source files of different content that map to the same nominal target   *)
(* get different target paths.                                             *)
(***************************************************************************)
C2_DistinctTargets ==
    (PlanWritten /\ PlanTime) =>
        \A i, j \in 1..Len(rows) :
            (i # j /\ rows[i].target_path # NoPath /\ fs[rows[i].src] # fs[rows[j].src])
                => rows[i].target_path # rows[j].target_path

(***************************************************************************)
(* C3: once a live do_apply has run to completion, a further live          *)
(* do_apply over the same plan moves no file and leaves the filesystem as  *)
(* the first left it.                                                      *)
(***************************************************************************)
C3_ApplyIdempotent ==
    (runs # <<>> /\ ~DRY_RUN /\ \E k \in 1..(Len(runs) - 1) : ~runs[k]) =>
        /\ fs = fsStart
        /\ \A i \in 1..Len(log) : log[i].run # Len(runs)

(***************************************************************************)
(* C4: a dry run of do_apply moves no file and creates no directory, and   *)
(* counts each MOVE_SOURCE row in moved, each REPLACE_MASTER_WITH_SOURCE   *)
(* row in replaced and each KEEP_MASTER row in kept.                       *)
(***************************************************************************)
C4_DryRunFrame ==
    (runs # <<>> /\ DRY_RUN) =>
        /\ fs = fsStart
        /\ dirs = dirsStart
        /\ RunComplete =>
             /\ tally.moved = CountRows("MOVE_SOURCE")
             /\ tally.replaced = CountRows("REPLACE_MASTER_WITH_SOURCE")
             /\ tally.kept = CountRows("KEEP_MASTER")

(***************************************************************************)
(* C5: in a live do_apply a row whose source file no longer exists moves   *)
(* no file; in particular the matched master of a REPLACE row is not moved *)
(* out of the master tree.                                                 *)
(***************************************************************************)
C5_DriftSkipped ==
    (phase = "applying" /\ pc = "src" /\ ~Exists(rows[idx].src)) =>
        \A i \in 1..Len(log) : ~(log[i].run = Len(runs) /\ log[i].row = idx)

(***************************************************************************)
(* C6: once a master file has been moved to a quarantine path, no later    *)
(* move, of this or of a later do_apply, writes to that path: the content  *)
(* that was quarantined stays there.                                       *)
(***************************************************************************)
C6_QuarantineKept ==
    \A i \in 1..Len(log) :
        log[i].to.root = "Q" => (Exists(log[i].to) /\ fs[log[i].to] = log[i].content)

(***************************************************************************)
(* C7: every scanned source file is the source of exactly one row of the   *)
(* plan; it is decided either as an exact duplicate or in the perceptual   *)
(* hash phase, never both, and always one of the two.                      *)
(***************************************************************************)
C7_PlanCoverage ==
    /\ PlanTime =>
         \A s \in Range(SOURCE_FILES) :
             LET ex == {i \in 1..Len(pairs_exact) : pairs_exact[i].s = s}
                 sm == {i \in 1..Len(pairs_sim) : pairs_sim[i].s = s}
             IN /\ Cardinality(ex) + Cardinality(sm) = 1
                /\ (\E m \in Range(MASTER_FILES) : fs[m] = fs[s]) <=> ex # {}
    /\ PlanWritten =>
         \A s \in Range(SOURCE_FILES) :
             Cardinality({i \in 1..Len(rows) : rows[i].src = s}) = 1

C7_Witness ==
    /\ PlanWritten
    /\ pairs_exact # <<>>
    /\ pairs_sim # <<>>
    /\ Len(rows) = 2

(***************************************************************************)
(* C8: every source file of the perceptual hash phase is in exactly one of *)
(* three classes: MOVE_SOURCE / no_phash when its hash is absent; a        *)
(* REPLACE or KEEP decision when the least Hamming distance to a master    *)
(* with a hash is at most PHASH_THRESHOLD, and then the matched master is  *)
(* the first one in MASTER_FILES at that least distance and the reason     *)
(* carries the distance; MOVE_SOURCE / unique_vs_master otherwise.         *)
(***************************************************************************)
C8_NearDuplicate ==
    PlanTime =>
        \A k \in 1..Len(pairs_sim) :
            LET pr == pairs_sim[k]
                sh == fs[pr.s].ph
                H == {i \in 1..Len(MASTER_FILES) : fs[MASTER_FILES[i]].ph # NoHash}
                dist(i) == hamming(sh, fs[MASTER_FILES[i]].ph)
                below == sh # NoHash /\ \E i \in H : dist(i) <= PHASH_THRESHOLD
            IN /\ sh = NoHash =>
                    /\ pr.act = "MOVE_SOURCE"
                    /\ pr.why.code = "no_phash"
                    /\ pr.m = NoPath
               /\ below =>
                    /\ pr.act \in {"REPLACE_MASTER_WITH_SOURCE", "KEEP_MASTER"}
                    /\ pr.why.code \in {"phash_dup_better_source", "phash_dup_master_better"}
                    /\ \E i \in H :
                         /\ MASTER_FILES[i] = pr.m
                         /\ \A j \in H : dist(i) <= dist(j)
                         /\ \A j \in H : j < i => dist(i) < dist(j)
                         /\ pr.why.d = dist(i)
               /\ (sh # NoHash /\ ~below) =>
                    /\ pr.act = "MOVE_SOURCE"
                    /\ pr.why.code = "unique_vs_master"
                    /\ pr.m = NoPath

\* a below-threshold decision with two masters at the least distance, one with
\* no hash beside a unique one, and one source without a hash
C8_Witness ==
    /\ PlanTime
    /\ \E k \in 1..Len(pairs_sim) :
         /\ pairs_sim[k].why.code = "phash_dup_better_source"
         /\ pairs_sim[k].why.d = PHASH_THRESHOLD
         /\ Cardinality({m \in Range(MASTER_FILES) :
                           fs[m].ph # NoHash
                           /\ hamming(fs[pairs_sim[k].s].ph, fs[m].ph) = PHASH_THRESHOLD}) = 2

(***************************************************************************)
(* C9: in a live do_apply the master of a REPLACE row is moved to its      *)
(* quarantine path before the source is moved to target_path: the source   *)
(* is never moved while the matched master is still at its path, and at    *)
(* every step the content the master had is at the master's path or at the *)
(* quarantine path.                                                        *)
(***************************************************************************)
C9_QuarantineBeforeReplace ==
    FirstLiveRun =>
        /\ (phase = "applying" /\ pc = "src") => ~Exists(rows[idx].master)
        /\ \A i \in 1..Len(rows) :
             (rows[i].action = "REPLACE_MASTER_WITH_SOURCE" /\ rows[i].master \in DOMAIN fsStart) =>
                 LET c == fsStart[rows[i].master]
                     m == rows[i].master
                 IN (Exists(m) /\ fs[m] = c) \/ (\E q \in FilesIn("Q") : fs[q] = c)

\* the order of the two moves alone, which do_apply keeps
QuarantineFirst ==
    (phase = "applying" /\ pc = "src") => ~Exists(rows[idx].master)

(***************************************************************************)
(* C10: better(a, b) is a exactly when file_score(a) is strictly lower     *)
(* than file_score(b), and b otherwise, so b on a tie; better(a, b) and    *)
(* better(b, a) are the same file when the scores differ.  Stated of the   *)
(* files make_plan has compared.                                           *)
(***************************************************************************)
C10_BetterTieBreak ==
    Resolved =>
        \A a, b \in DOMAIN fs :
            a # b =>
                LET sa == file_score(a)
                    sb == file_score(b)
                    ab == better(a, b)
                    ba == better(b, a)
                    lower == LexLower(sa, sb)
                IN /\ ab = a <=> lower
                   /\ ab = b <=> ~lower
                   /\ sa = sb => (ab = b /\ ba = a)
                   /\ sa # sb => ab = ba

\* make_plan has applied better to a source and a master of equal score, and
\* to a source and a master of different scores
C10_Witness ==
    /\ Resolved
    /\ \E k \in 1..Len(pairs_exact) :
         file_score(pairs_exact[k].s) = file_score(pairs_exact[k].m)
    /\ \E k \in 1..Len(pairs_sim) :
         /\ pairs_sim[k].m # NoPath
         /\ file_score(pairs_sim[k].s) # file_score(pairs_sim[k].m)

====
